---- MODULE Spec2Model ----
(***************************************************************************)
(* A model of the RAG copilot's ingestion pipeline and query path:         *)
(*   document_processor.py  clean_text, chunk_by_sentences,                *)
(*                          create_chunk_with_metadata                     *)
(*   embedder.py            extract_text_with_pages, get_embedding,        *)
(*                          get_embeddings_batch                           *)
(*   qdrant_utils.py        collection_exists, create_collection,          *)
(*                          upload_documents_with_metadata,                *)
(*                          search_documents_with_metadata                 *)
(*   backend/main.py        upload_docs, generate                          *)
(*                                                                         *)
(* Several specifications share the module:                                *)
(*   SpecChunk  applies chunk_by_sentences to every bounded text,          *)
(*   SpecEmbed  applies get_embeddings_batch under every failure pattern,  *)
(*   SpecClean  applies clean_text to every bounded text,                  *)
(*   SpecStore  applies the storage step of upload_docs to bounded runs,   *)
(*   Spec       runs upload_docs / search / generate against one store.    *)
(*                                                                         *)
(* A text is a sequence of one-character strings.                          *)
(***************************************************************************)
EXTENDS Integers, Sequences, FiniteSets, TLC

VARIABLES
    \* ---- SpecChunk: one call of chunk_by_sentences
    c_text,        \* the text argument
    c_size,        \* the chunk_size argument
    c_overlap,     \* the overlap argument
    c_pc,          \* "call" before the call, "done" after it
    c_lists,       \* per returned chunk, its current_chunk list of sentences
    c_chunks,      \* the returned list of chunk strings
    \* ---- SpecEmbed: one call of get_embeddings_batch
    e_texts,       \* the texts argument
    e_batch,       \* the batch_size argument
    e_pc,          \* "call" / "done"
    e_batchFail,   \* batch numbers whose batch request raised
    e_itemFail,    \* text indices whose single-item request raises
    e_out,         \* the returned list all_embeddings
    e_requests,    \* the requests the call sent to the embedding service, in order
    \* ---- Spec: the handlers of backend/main.py against one vector store
    store,         \* the Qdrant server: reachability and the collection
    req,           \* the request being answered, and how the services took it
    resp           \* what the handler returned (or that it raised)

chunkVars == <<c_text, c_size, c_overlap, c_pc, c_lists, c_chunks>>
embedVars == <<e_texts, e_batch, e_pc, e_batchFail, e_itemFail, e_out, e_requests>>
storeVars == <<store, req, resp>>
vars == <<chunkVars, embedVars, storeVars>>

(***************************************************************************)
(* Bounds of the model.                                                    *)
(***************************************************************************)
MaxLen == 6          \* longest text given to chunk_by_sentences
MaxChunkSize == 4    \* largest chunk_size tried
MaxOverlap == 4      \* largest overlap tried
MaxTexts == 4        \* longest list given to get_embeddings_batch
MaxBatch == 3        \* largest batch_size tried
MaxFiles == 2        \* most files in one upload
MaxFailures == 1     \* most chunks of one upload the embedding service fails on
MaxTopK == 2         \* largest top_k asked for
MaxCleanLen == 5     \* longest text given to clean_text
MaxRecords == 201    \* most chunks of one run given to the storage step

(***************************************************************************)
(* Characters, as Python's re sees them.                                   *)
(***************************************************************************)
\* \s
IsSpace(c) == c \in {" ", "\n"}

\* [.!?] of the sentence boundary
IsTerminator(c) == c \in {".", "!", "?"}

RECURSIVE SeqSum(_)
\* sum of a sequence of numbers
SeqSum(s) == IF s = <<>> THEN 0 ELSE Head(s) + SeqSum(Tail(s))

\* the texts of length at most n over alphabet A
TextsUpTo(A, n) == UNION {[1..k -> A] : k \in 0..n}

(***************************************************************************)
(* document_processor.chunk_by_sentences                                   *)
(***************************************************************************)
RECURSIVE SkipSpaces(_, _)
\* the end of a \s+ match that starts at i: the first index >= i that is no space
SkipSpaces(text, i) ==
    IF i <= Len(text) /\ IsSpace(text[i]) THEN SkipSpaces(text, i + 1) ELSE i

RECURSIVE SplitFrom(_, _, _)
\* re.split(r'(?<=[.!?])\s+', text), scanning from i with the piece cur open
SplitFrom(text, i, cur) ==
    IF i > Len(text) THEN <<cur>>
    ELSE IF IsSpace(text[i]) /\ i > 1 /\ IsTerminator(text[i - 1])
         THEN <<cur>> \o SplitFrom(text, SkipSpaces(text, i), <<>>)
         ELSE SplitFrom(text, i + 1, Append(cur, text[i]))

\* sentences = re.split(r'(?<=[.!?])\s+', text)
SplitSentences(text) == SplitFrom(text, 1, <<>>)

RECURSIVE JoinFrom(_, _)
JoinFrom(parts, i) ==
    IF i > Len(parts) THEN <<>>
    ELSE IF i = Len(parts) THEN parts[i]
    ELSE parts[i] \o <<" ">> \o JoinFrom(parts, i + 1)

\* ' '.join(parts)
Join(parts) == JoinFrom(parts, 1)

RECURSIVE OverlapFrom(_, _, _, _, _)
\* the loop over reversed(current_chunk); current_chunk is kept as the indices of
\* its sentences in `sentences`, k is the position of the next one to look at
OverlapFrom(sentences, current_chunk, k, overlap, overlap_sentences) ==
    IF k = 0 THEN overlap_sentences
    ELSE IF SeqSum([j \in 1..Len(overlap_sentences) |->
                        Len(sentences[overlap_sentences[j]])])
            + Len(sentences[current_chunk[k]]) <= overlap
         THEN OverlapFrom(sentences, current_chunk, k - 1, overlap,
                          <<current_chunk[k]>> \o overlap_sentences)
         ELSE overlap_sentences

\* OverlapSentences built with append(s) in place of insert(0, s): the seed reversed
OverlapSentencesAppended(sentences, current_chunk, overlap) ==
    LET seed == OverlapFrom(sentences, current_chunk, Len(current_chunk), overlap, <<>>)
    IN  [j \in 1..Len(seed) |-> seed[Len(seed) + 1 - j]]

\* overlap_sentences: the seed of the next chunk
OverlapSentences(sentences, current_chunk, overlap) ==
    OverlapFrom(sentences, current_chunk, Len(current_chunk), overlap, <<>>)

\* current_length: the sum of the lengths of the sentences of current_chunk
ChunkLength(sentences, current_chunk) ==
    SeqSum([j \in 1..Len(current_chunk) |-> Len(sentences[current_chunk[j]])])

RECURSIVE ChunkLoopLate(_, _, _, _, _, _)
\* ChunkLoop closing a chunk only once it is already over chunk_size
ChunkLoopLate(sentences, i, chunk_size, overlap, chunks, current_chunk) ==
    IF i > Len(sentences)
    THEN IF current_chunk # <<>> THEN Append(chunks, current_chunk) ELSE chunks
    ELSE IF ChunkLength(sentences, current_chunk) > chunk_size
            /\ current_chunk # <<>>
         THEN ChunkLoopLate(sentences, i + 1, chunk_size, overlap,
                        Append(chunks, current_chunk),
                        Append(OverlapSentences(sentences, current_chunk, overlap), i))
         ELSE ChunkLoopLate(sentences, i + 1, chunk_size, overlap,
                        chunks, Append(current_chunk, i))

RECURSIVE ChunkLoop(_, _, _, _, _, _)
\* the loop over sentences from the i-th on; returns the current_chunk lists
\* saved, each a list of sentence indices
ChunkLoop(sentences, i, chunk_size, overlap, chunks, current_chunk) ==
    IF i > Len(sentences)
    THEN IF current_chunk # <<>> THEN Append(chunks, current_chunk) ELSE chunks
    ELSE IF ChunkLength(sentences, current_chunk) + Len(sentences[i]) > chunk_size
            /\ current_chunk # <<>>
         THEN ChunkLoop(sentences, i + 1, chunk_size, overlap,
                        Append(chunks, current_chunk),
                        Append(OverlapSentences(sentences, current_chunk, overlap), i))
         ELSE ChunkLoop(sentences, i + 1, chunk_size, overlap,
                        chunks, Append(current_chunk, i))

\* a chunk_by_sentences without its `if current_chunk: chunks.append(...)` after
\* the loop: the chunk being built when the sentences run out is not returned
ChunkListsNoRest(text, chunk_size, overlap) ==
    LET lists == ChunkLoop(SplitSentences(text), 1, chunk_size, overlap, <<>>, <<>>)
    IN  SubSeq(lists, 1, Len(lists) - 1)

\* the sentence-index lists behind the chunks chunk_by_sentences returns
ChunkLists(text, chunk_size, overlap) ==
    ChunkLoop(SplitSentences(text), 1, chunk_size, overlap, <<>>, <<>>)

\* the chunk strings: ' '.join(current_chunk) of every saved list
JoinChunks(sentences, lists) ==
    [k \in 1..Len(lists) |-> Join([j \in 1..Len(lists[k]) |-> sentences[lists[k][j]]])]

\* chunk_by_sentences(text, chunk_size, overlap)
chunk_by_sentences(text, chunk_size, overlap) ==
    JoinChunks(SplitSentences(text), ChunkLists(text, chunk_size, overlap))

(***************************************************************************)
(* embedder.get_embedding / get_embeddings_batch                           *)
(*                                                                         *)
(* A vector is [dim, val]: its length and what its numbers encode, either  *)
(* <<"embedding", text>> or <<"zeros">>.  The embedding service            *)
(* (text-embedding-ada-002) is deterministic and answers a batch with one  *)
(* vector per input, in input order; a request either raises or answers.   *)
(***************************************************************************)
\* the width of the vectors of text-embedding-ada-002
EmbeddingDim == 1536

\* response.data[0].embedding of a request that answered
get_embedding(text) == [dim |-> EmbeddingDim, val |-> <<"embedding", text>>]

\* a zero vector of another length
ZeroVectorShort == [dim |-> 3, val |-> <<"zeros">>]

\* [0.0] * 1536
ZeroVector == [dim |-> 1536, val |-> <<"zeros">>]

\* the inner loop of the except branch: one get_embedding per text of the batch
FallbackEmbeddings(texts, lo, hi, itemFail) ==
    [k \in 1..(hi - lo + 1) |->
        IF (lo + k - 1) \in itemFail THEN ZeroVector
        ELSE get_embedding(texts[lo + k - 1])]

\* batch_embeddings = [item.embedding for item in response.data]
BatchEmbeddings(texts, lo, hi) ==
    [k \in 1..(hi - lo + 1) |-> get_embedding(texts[lo + k - 1])]

RECURSIVE EmbedLoopDrop(_, _, _, _, _, _)
\* EmbedLoop that gives up on a text whose single request fails (no zero vector)
EmbedLoopDrop(texts, batch_size, batch_idx, batchFail, itemFail, all_embeddings) ==
    IF batch_idx >= Len(texts) THEN all_embeddings
    ELSE LET lo == batch_idx + 1
             hi == IF batch_idx + batch_size < Len(texts)
                   THEN batch_idx + batch_size ELSE Len(texts)
             batch_num == (batch_idx \div batch_size) + 1
             ok == {i \in lo..hi : i \notin itemFail}
             kept == [k \in 1..Cardinality(ok) |->
                        get_embedding(texts[CHOOSE i \in ok :
                            Cardinality({j \in ok : j < i}) = k - 1])]
         IN  EmbedLoopDrop(texts, batch_size, batch_idx + batch_size, batchFail, itemFail,
                       all_embeddings \o
                       (IF batch_num \in batchFail THEN kept
                        ELSE BatchEmbeddings(texts, lo, hi)))

RECURSIVE EmbedLoop(_, _, _, _, _, _)
\* for batch_idx in range(0, len(texts), batch_size), from batch_idx on
EmbedLoop(texts, batch_size, batch_idx, batchFail, itemFail, all_embeddings) ==
    IF batch_idx >= Len(texts) THEN all_embeddings
    ELSE LET lo == batch_idx + 1
             hi == IF batch_idx + batch_size < Len(texts)
                   THEN batch_idx + batch_size ELSE Len(texts)
             batch_num == (batch_idx \div batch_size) + 1
         IN  EmbedLoop(texts, batch_size, batch_idx + batch_size, batchFail, itemFail,
                       all_embeddings \o
                       (IF batch_num \in batchFail
                        THEN FallbackEmbeddings(texts, lo, hi, itemFail)
                        ELSE BatchEmbeddings(texts, lo, hi)))

\* get_embeddings_batch(texts, key, batch_size) when the batch requests numbered
\* in batchFail raise and the single requests for the positions in itemFail raise
get_embeddings_batch(texts, batch_size, batchFail, itemFail) ==
    EmbedLoop(texts, batch_size, 0, batchFail, itemFail, <<>>)

\* a request to the embedding service: kind "batch" is openai.Embedding.create
\* with the batch as input, kind "single" is get_embedding of one text; input
\* holds the positions in texts of the texts sent; raised says how it ended
Request(kind, input, raised) == [kind |-> kind, input |-> input, raised |-> raised]

\* the requests of the fallback for the texts lo..hi: one get_embedding each
SingleRequests(lo, hi, itemFail) ==
    [k \in 1..(hi - lo + 1) |-> Request("single", <<lo + k - 1>>, (lo + k - 1) \in itemFail)]

RECURSIVE EmbedRequestsGiveUp(_, _, _, _, _, _)
\* a loop that, once a batch request has failed, sends every remaining text singly
EmbedRequestsGiveUp(texts, batch_size, batch_idx, batchFail, itemFail, requests) ==
    IF batch_idx >= Len(texts) THEN requests
    ELSE LET lo == batch_idx + 1
             hi == IF batch_idx + batch_size < Len(texts)
                   THEN batch_idx + batch_size ELSE Len(texts)
             batch_num == (batch_idx \div batch_size) + 1
             batch == [k \in 1..(hi - lo + 1) |-> lo + k - 1]
         IN  IF batch_num \in batchFail
             THEN requests \o <<Request("batch", batch, TRUE)>>
                           \o SingleRequests(lo, Len(texts), itemFail)
             ELSE EmbedRequestsGiveUp(texts, batch_size, batch_idx + batch_size, batchFail,
                                      itemFail,
                                      requests \o <<Request("batch", batch, FALSE)>>)

RECURSIVE EmbedRequests(_, _, _, _, _, _)
\* the requests the loop of get_embeddings_batch sends, from batch_idx on: the
\* batch request of each batch and, after one that raised, a get_embedding for
\* each text of that batch
EmbedRequests(texts, batch_size, batch_idx, batchFail, itemFail, requests) ==
    IF batch_idx >= Len(texts) THEN requests
    ELSE LET lo == batch_idx + 1
             hi == IF batch_idx + batch_size < Len(texts)
                   THEN batch_idx + batch_size ELSE Len(texts)
             batch_num == (batch_idx \div batch_size) + 1
             batch == [k \in 1..(hi - lo + 1) |-> lo + k - 1]
         IN  EmbedRequests(texts, batch_size, batch_idx + batch_size, batchFail, itemFail,
                           requests \o
                           (IF batch_num \in batchFail
                            THEN <<Request("batch", batch, TRUE)>>
                                 \o SingleRequests(lo, hi, itemFail)
                            ELSE <<Request("batch", batch, FALSE)>>))

\* total_batches = (len(texts) + batch_size - 1) // batch_size
TotalBatches(n, batch_size) == (n + batch_size - 1) \div batch_size

(***************************************************************************)
(* document_processor.clean_text / create_chunk_with_metadata              *)
(***************************************************************************)
\* \w, for the characters the model's texts use
IsWordChar(c) == c \in {"a", "b", "c", "1", "2", "_"}

\* [\w\s\.\,\!\?\-\:\;\(\)]: what the second re.sub keeps
IsAllowed(c) ==
    IsWordChar(c) \/ IsSpace(c) \/ c \in {".", ",", "!", "?", "-", ":", ";", "(", ")"}

RECURSIVE CollapseSpaces(_, _)
\* re.sub(r'\s+', ' ', text), from position i on
CollapseSpaces(text, i) ==
    IF i > Len(text) THEN <<>>
    ELSE IF IsSpace(text[i]) THEN <<" ">> \o CollapseSpaces(text, SkipSpaces(text, i))
    ELSE <<text[i]>> \o CollapseSpaces(text, i + 1)

RECURSIVE DropSpecial(_, _)
\* re.sub(r'[^\w\s\.\,\!\?\-\:\;\(\)]', '', text), from position i on
DropSpecial(text, i) ==
    IF i > Len(text) THEN <<>>
    ELSE (IF IsAllowed(text[i]) THEN <<text[i]>> ELSE <<>>) \o DropSpecial(text, i + 1)

RECURSIVE Strip(_)
\* text.strip()
Strip(text) ==
    IF text = <<>> THEN text
    ELSE IF IsSpace(text[1]) THEN Strip(Tail(text))
    ELSE IF IsSpace(text[Len(text)]) THEN Strip(SubSeq(text, 1, Len(text) - 1))
    ELSE text

\* clean_text(text)
clean_text(text) == Strip(DropSpecial(CollapseSpaces(text, 1), 1))

\* Python's None, and a value that is not None
None == <<>>
Some(x) == <<x>>

\* create_chunk_with_metadata(chunk, source_file, chunk_index, page_number)
create_chunk_with_metadata(chunk, source_file, chunk_index, page_number) ==
    [text |-> chunk,
     metadata |-> [source |-> source_file, chunk_index |-> chunk_index,
                   length |-> Len(chunk), page_number |-> page_number]]

(***************************************************************************)
(* embedder.extract_text_with_pages                                        *)
(*                                                                         *)
(* An uploaded file is [name, ext, readable, parts]: ext is the suffix     *)
(* file_name.endswith sees; readable says whether decoding (txt, md) or    *)
(* parsing (pdf, docx) the bytes succeeds; parts are the decoded text (one *)
(* part), the pages' texts (pdf) or the paragraphs' texts (docx).          *)
(***************************************************************************)
\* word_count >= 500: the size of a synthesized DOCX page
DocxPageWords == 500

RECURSIVE WordCount(_, _, _)
\* len(para_text.split()), from position i on; inWord: i - 1 is inside a word
WordCount(text, i, inWord) ==
    IF i > Len(text) THEN 0
    ELSE IF IsSpace(text[i]) THEN WordCount(text, i + 1, FALSE)
    ELSE (IF inWord THEN 0 ELSE 1) + WordCount(text, i + 1, TRUE)

RECURSIVE PdfPages(_, _)
\* the loop over enumerate(pdf_reader.pages, 1), from page_num on
PdfPages(parts, page_num) ==
    IF page_num > Len(parts) THEN [text |-> <<>>, pages |-> <<>>]
    ELSE LET rest == PdfPages(parts, page_num + 1)
         IN  IF parts[page_num] # <<>>
             THEN [text |-> parts[page_num] \o <<"\n">> \o rest.text,
                   pages |-> <<<<page_num, parts[page_num]>>>> \o rest.pages]
             ELSE rest

RECURSIVE DocxPages(_, _, _, _, _, _, _)
\* the loop over doc.paragraphs, from the i-th on, and the flush after it
DocxPages(parts, i, current_page, current_page_text, word_count, page_texts, full_text) ==
    IF i > Len(parts)
    THEN IF current_page_text # <<>>
         THEN [text |-> full_text \o current_page_text,
               pages |-> Append(page_texts, <<current_page, current_page_text>>)]
         ELSE [text |-> full_text, pages |-> page_texts]
    ELSE IF Strip(parts[i]) = <<>>
         THEN DocxPages(parts, i + 1, current_page, current_page_text, word_count,
                        page_texts, full_text)
         ELSE LET txt == current_page_text \o parts[i] \o <<"\n">>
                  wc == word_count + WordCount(parts[i], 1, FALSE)
              IN  IF wc >= DocxPageWords
                  THEN DocxPages(parts, i + 1, current_page + 1, <<>>, 0,
                                 Append(page_texts, <<current_page, txt>>),
                                 full_text \o txt)
                  ELSE DocxPages(parts, i + 1, current_page, txt, wc,
                                 page_texts, full_text)

\* extract_text_with_pages(file_bytes, file_name), with PDF_SUPPORT and
\* DOCX_SUPPORT; raised: the call ended in an exception (UnicodeDecodeError)
extract_text_with_pages(file) ==
    IF file.ext \in {"txt", "md"}
    THEN IF file.readable
         THEN [raised |-> FALSE, text |-> file.parts[1],
               pages |-> <<<<1, file.parts[1]>>>>]
         ELSE [raised |-> TRUE, text |-> <<>>, pages |-> <<>>]
    ELSE IF file.ext = "pdf"
    THEN IF file.readable
         THEN [raised |-> FALSE] @@ PdfPages(file.parts, 1)
         ELSE [raised |-> FALSE, text |-> <<>>, pages |-> <<>>]
    ELSE IF file.ext = "docx"
    THEN IF file.readable
         THEN [raised |-> FALSE] @@ DocxPages(file.parts, 1, 1, <<>>, 0, <<>>, <<>>)
         ELSE [raised |-> FALSE, text |-> <<>>, pages |-> <<>>]
    ELSE [raised |-> FALSE, text |-> <<>>, pages |-> <<>>]

(***************************************************************************)
(* The Qdrant server and qdrant_utils                                      *)
(*                                                                         *)
(* store = [up, exists, size, points]: whether the server answers, whether *)
(* the collection "reference_docs" exists, its vector size, and its points *)
(* as a function from point id to [vector, payload].  A client call to a   *)
(* server that does not answer raises a transport error, which is not an   *)
(* UnexpectedResponse; get_collection of a collection that does not exist  *)
(* raises UnexpectedResponse.                                              *)
(***************************************************************************)
NoPoints == [id \in {} |-> 0]

\* collection_exists with no except clause: a missing collection raises too
collection_exists_uncaught(st) ==
    IF ~st.up \/ ~st.exists THEN "raise" ELSE "true"

\* collection_exists(client, collection_name): "true", "false", or "raise" when
\* get_collection raises something the except clause does not catch
collection_exists(st) ==
    IF ~st.up THEN "raise"
    ELSE IF st.exists THEN "true"
    ELSE "false"

\* client.delete_collection(collection_name)
DeleteCollection(st) == [st EXCEPT !.exists = FALSE, !.size = 0, !.points = NoPoints]

\* client.create_collection(collection_name, VectorParams(size, COSINE))
CreateCollection(st, vector_size) ==
    [st EXCEPT !.exists = TRUE, !.size = vector_size, !.points = NoPoints]

\* create_collection without the delete: an existing collection is left as it is
create_collection_keep(st, vector_size) ==
    IF collection_exists(st) = "raise" THEN [raised |-> TRUE, store |-> st]
    ELSE IF collection_exists(st) = "true" THEN [raised |-> FALSE, store |-> st]
    ELSE [raised |-> FALSE, store |-> CreateCollection(st, vector_size)]

\* create_collection(client, collection_name, vector_size)
create_collection(st, vector_size) ==
    IF collection_exists(st) = "raise" THEN [raised |-> TRUE, store |-> st]
    ELSE IF collection_exists(st) = "true"
    THEN [raised |-> FALSE, store |-> CreateCollection(DeleteCollection(st), vector_size)]
    ELSE [raised |-> FALSE, store |-> CreateCollection(st, vector_size)]

\* records per client.upsert call
UpsertBatchSize == 100

\* a PointStruct that takes its vector from the other end of embeddings
PointStructMirrored(chunk_objs, embeddings, i) ==
    [vector |-> embeddings[Len(embeddings) - i],
     payload |-> [text |-> chunk_objs[i + 1].text,
                  source |-> chunk_objs[i + 1].metadata.source,
                  chunk_index |-> chunk_objs[i + 1].metadata.chunk_index,
                  length |-> chunk_objs[i + 1].metadata.length]]

\* PointStruct(id=i, vector=embeddings[i], payload={...}), i counted from 0
PointStruct(chunk_objs, embeddings, i) ==
    [vector |-> embeddings[i + 1],
     payload |-> [text |-> chunk_objs[i + 1].text,
                  source |-> chunk_objs[i + 1].metadata.source,
                  chunk_index |-> chunk_objs[i + 1].metadata.chunk_index,
                  length |-> chunk_objs[i + 1].metadata.length]]

\* client.upsert(collection_name, points=batch_points) for ids start_idx..end_idx-1
Upsert(points, chunk_objs, embeddings, start_idx, end_idx) ==
    [id \in DOMAIN points \cup (start_idx..(end_idx - 1)) |->
        IF id \in start_idx..(end_idx - 1)
        THEN PointStruct(chunk_objs, embeddings, id)
        ELSE points[id]]

\* a client.upsert call as the server saw it: the ids of its points, in the order
\* of batch_points, and whether the call raised
UpsertCall(start_idx, end_idx, raised) ==
    [ids |-> [k \in 1..(end_idx - start_idx) |-> start_idx + k - 1], raised |-> raised]

RECURSIVE UpsertLoopFloor(_, _, _, _, _)
\* an UpsertLoop whose total_batches is rounded down: no call for a last batch of
\* fewer than UpsertBatchSize records
UpsertLoopFloor(points, chunk_objs, embeddings, batch_num, okCalls) ==
    LET total_docs == Len(chunk_objs)
        total_batches == total_docs \div UpsertBatchSize
        start_idx == batch_num * UpsertBatchSize
        end_idx == IF (batch_num + 1) * UpsertBatchSize < total_docs
                   THEN (batch_num + 1) * UpsertBatchSize ELSE total_docs
        rest == UpsertLoopFloor(Upsert(points, chunk_objs, embeddings, start_idx, end_idx),
                                chunk_objs, embeddings, batch_num + 1, okCalls)
    IN  IF batch_num >= total_batches
        THEN [raised |-> FALSE, points |-> points, calls |-> <<>>]
        ELSE IF batch_num >= okCalls
        THEN [raised |-> TRUE, points |-> points,
              calls |-> <<UpsertCall(start_idx, end_idx, TRUE)>>]
        ELSE [rest EXCEPT !.calls = <<UpsertCall(start_idx, end_idx, FALSE)>> \o @]

RECURSIVE UpsertLoop(_, _, _, _, _)
\* for batch_num in range(total_batches), from batch_num on.  okCalls: the number
\* of client.upsert calls the server answers; the next one raises.  calls: the
\* client.upsert calls made, in order
UpsertLoop(points, chunk_objs, embeddings, batch_num, okCalls) ==
    LET total_docs == Len(chunk_objs)
        total_batches == (total_docs + UpsertBatchSize - 1) \div UpsertBatchSize
        start_idx == batch_num * UpsertBatchSize
        end_idx == IF (batch_num + 1) * UpsertBatchSize < total_docs
                   THEN (batch_num + 1) * UpsertBatchSize ELSE total_docs
        rest == UpsertLoop(Upsert(points, chunk_objs, embeddings, start_idx, end_idx),
                           chunk_objs, embeddings, batch_num + 1, okCalls)
    IN  IF batch_num >= total_batches
        THEN [raised |-> FALSE, points |-> points, calls |-> <<>>]
        ELSE IF batch_num >= okCalls
        THEN [raised |-> TRUE, points |-> points,
              calls |-> <<UpsertCall(start_idx, end_idx, TRUE)>>]
        ELSE [rest EXCEPT !.calls = <<UpsertCall(start_idx, end_idx, FALSE)>> \o @]

\* upload_documents_with_metadata(client, collection_name, chunk_objs, embeddings)
upload_documents_with_metadata(st, chunk_objs, embeddings, okCalls) ==
    LET done == UpsertLoop(st.points, chunk_objs, embeddings, 0, okCalls)
    IN  [raised |-> done.raised, store |-> [st EXCEPT !.points = done.points],
         calls |-> done.calls]

\* the server's cosine similarity of two vectors, in units of 0.00001; the
\* vectors of equal texts are equal, a zero vector is similar to nothing
Similarity(q, v) ==
    IF q.val = <<"zeros">> \/ v.val = <<"zeros">> THEN 0
    ELSE LET a == q.val[2]
             b == v.val[2]
             short == IF Len(a) < Len(b) THEN Len(a) ELSE Len(b)
             long == IF Len(a) < Len(b) THEN Len(b) ELSE Len(a)
         IN  IF long = 0 THEN 100000
             ELSE (Cardinality({i \in 1..short : a[i] = b[i]}) * 100000) \div long

\* round(r.score, 4), in units of 0.0001
Round4(score) == (score + 5) \div 10

RECURSIVE TopK(_, _, _, _)
\* client.search(query_vector, limit): the `limit` best points of ids, best first;
\* equal scores in id order
TopK(points, ids, query_vector, limit) ==
    IF limit <= 0 \/ ids = {} THEN <<>>
    ELSE LET best == CHOOSE id \in ids : \A o \in ids :
                        \/ Similarity(query_vector, points[id].vector)
                             > Similarity(query_vector, points[o].vector)
                        \/ /\ Similarity(query_vector, points[id].vector)
                                = Similarity(query_vector, points[o].vector)
                           /\ id <= o
         IN  <<[id |-> best, payload |-> points[best].payload,
                score |-> Similarity(query_vector, points[best].vector)]>>
             \o TopK(points, ids \ {best}, query_vector, limit - 1)

\* r.payload.get(key, default)
PayloadGet(payload, key, default) ==
    IF key \in DOMAIN payload THEN payload[key] ELSE default

\* formatted_results: one result_data per hit, in the order of the hits
FormattedResults(results) ==
    [i \in 1..Len(results) |->
        [text |-> results[i].payload.text,
         source |-> PayloadGet(results[i].payload, "source", "Unknown"),
         chunk_index |-> PayloadGet(results[i].payload, "chunk_index", 0),
         page_number |-> PayloadGet(results[i].payload, "page_number", None),
         score |-> Round4(results[i].score)]]

\* search_documents_with_metadata that passes no limit to client.search
search_documents_unlimited(st, query_embedding, top_k) ==
    IF collection_exists(st) = "raise" THEN [raised |-> TRUE, results |-> <<>>]
    ELSE IF collection_exists(st) = "false" THEN [raised |-> FALSE, results |-> <<>>]
    ELSE [raised |-> FALSE,
          results |-> FormattedResults(TopK(st.points, DOMAIN st.points, query_embedding,
                                            Cardinality(DOMAIN st.points)))]

\* search_documents_with_metadata(client, collection_name, query_embedding, top_k)
search_documents_with_metadata(st, query_embedding, top_k) ==
    IF collection_exists(st) = "raise" THEN [raised |-> TRUE, results |-> <<>>]
    ELSE IF collection_exists(st) = "false" THEN [raised |-> FALSE, results |-> <<>>]
    ELSE [raised |-> FALSE,
          results |-> FormattedResults(TopK(st.points, DOMAIN st.points,
                                            query_embedding, top_k))]

(***************************************************************************)
(* The files the model uploads.                                            *)
(***************************************************************************)
\* "Auth uses JWT." in the model's alphabet: one page, one chunk
GoodMd == [name |-> "a.md", ext |-> "md", readable |-> TRUE,
           parts |-> <<<<"a", ".", " ", "b", ".">>>>]

\* three pages, the second one empty, the third one with a character to drop
GoodPdf == [name |-> "b.pdf", ext |-> "pdf", readable |-> TRUE,
            parts |-> <<<<"a", " ", "a", ".">>, <<>>, <<"#", "b", ".">>>>]

\* bytes that are not UTF-8
UndecodableTxt == [name |-> "d.txt", ext |-> "txt", readable |-> FALSE, parts |-> <<>>]

\* bytes PdfReader cannot parse
UnparsablePdf == [name |-> "e.pdf", ext |-> "pdf", readable |-> FALSE, parts |-> <<>>]

\* bytes Document cannot parse
UnparsableDocx == [name |-> "f.docx", ext |-> "docx", readable |-> FALSE, parts |-> <<>>]

\* a format extract_text_with_pages does not know
UnsupportedPng == [name |-> "g.png", ext |-> "png", readable |-> TRUE, parts |-> <<>>]

\* text that clean_text empties
JunkMd == [name |-> "h.md", ext |-> "md", readable |-> TRUE, parts |-> <<<<"#">>>>]

FileCatalogue ==
    {GoodMd, GoodPdf, UndecodableTxt, UnparsablePdf, UnparsableDocx,
     UnsupportedPng, JunkMd}

(***************************************************************************)
(* backend/main.py: upload_docs                                            *)
(***************************************************************************)
\* chunk_by_sentences(cleaned_page, chunk_size=500, overlap=50)
UploadChunkSize == 500
UploadOverlap == 50

\* get_embeddings_batch(chunk_texts, OPENAI_API_KEY, batch_size=100)
UploadBatchSize == 100

RECURSIVE PageChunks(_, _)
\* the loop over page_texts, from the i-th page on: page_chunks
PageChunks(page_texts, i) ==
    IF i > Len(page_texts) THEN <<>>
    ELSE LET page_num == page_texts[i][1]
             cleaned_page == clean_text(page_texts[i][2])
             chunks == chunk_by_sentences(cleaned_page, UploadChunkSize, UploadOverlap)
         IN  IF cleaned_page = <<>> THEN PageChunks(page_texts, i + 1)
             ELSE [k \in 1..Len(chunks) |-> <<page_num, chunks[k]>>]
                  \o PageChunks(page_texts, i + 1)

\* steps 1 to 3 of the loop body for each file of the catalogue: the extraction
\* and the page_chunks made of its pages
Processed ==
    [file \in FileCatalogue |->
        LET extracted == extract_text_with_pages(file)
        IN  [raised |-> extracted.raised, text |-> extracted.text,
             page_chunks |-> PageChunks(extracted.pages, 1)]]

RECURSIVE UploadLoop(_, _, _, _, _)
\* the loop over files, from the i-th file on.  failing: the positions, counted
\* over all chunks of the run, of the chunks the embedding service fails on (the
\* batch request that carries one fails, and so does its single request).
UploadLoop(files, i, failing, all_chunk_objs, all_embeddings) ==
    IF i > Len(files)
    THEN [raised |-> FALSE, objs |-> all_chunk_objs, embs |-> all_embeddings]
    ELSE LET extracted == Processed[files[i]]
             page_chunks == extracted.page_chunks
             file_chunk_objs ==
                 [k \in 1..Len(page_chunks) |->
                     create_chunk_with_metadata(page_chunks[k][2], files[i].name,
                                                k - 1, Some(page_chunks[k][1]))]
             chunk_texts == [k \in 1..Len(page_chunks) |-> page_chunks[k][2]]
             itemFail == {k \in 1..Len(page_chunks) : Len(all_chunk_objs) + k \in failing}
             batchFail == {((k - 1) \div UploadBatchSize) + 1 : k \in itemFail}
             file_embeddings ==
                 get_embeddings_batch(chunk_texts, UploadBatchSize, batchFail, itemFail)
         IN  IF extracted.raised
             THEN [raised |-> TRUE, objs |-> all_chunk_objs, embs |-> all_embeddings]
             ELSE IF extracted.text = <<>> \/ page_chunks = <<>>
             THEN UploadLoop(files, i + 1, failing, all_chunk_objs, all_embeddings)
             ELSE UploadLoop(files, i + 1, failing,
                             all_chunk_objs \o file_chunk_objs,
                             all_embeddings \o file_embeddings)

\* the lists of files an upload may carry
FileLists == TextsUpTo(FileCatalogue, MaxFiles)

RECURSIVE ChunkCount(_)
\* the number of chunks a list of files yields when no extraction raises
ChunkCount(files) ==
    IF files = <<>> THEN 0
    ELSE Len(Processed[Head(files)].page_chunks) + ChunkCount(Tail(files))

\* the inputs of an upload: the files, and the chunk positions the embedding
\* service fails on
UploadInputs ==
    UNION {{[op |-> "upload", files |-> files, failing |-> failing, okCalls |-> okCalls] :
                failing \in {F \in SUBSET (1..ChunkCount(files)) :
                                Cardinality(F) <= MaxFailures},
                okCalls \in 0..((ChunkCount(files) + UpsertBatchSize - 1)
                                   \div UpsertBatchSize)} :
           files \in FileLists}

\* the loop over files of every upload of the model, computed once
UploadRuns ==
    [in \in {<<u.files, u.failing>> : u \in UploadInputs} |->
        UploadLoop(in[1], 1, in[2], <<>>, <<>>)]

\* what a handler that ended in an exception leaves its caller
Raised(op) == [op |-> op, raised |-> TRUE]

\* a Step 6 that puts the previous collection back when an upsert call raises
StoreChunksRollback(st, all_chunk_objs, all_embeddings, okCalls) ==
    LET created == create_collection(st, all_embeddings[1].dim)
        stored == upload_documents_with_metadata(created.store, all_chunk_objs,
                                                 all_embeddings, okCalls)
    IN  IF created.raised THEN [raised |-> TRUE, store |-> st, calls |-> <<>>]
        ELSE IF stored.raised THEN [raised |-> TRUE, store |-> st, calls |-> stored.calls]
        ELSE stored

\* Step 6: create_collection(client, COLLECTION_NAME, len(all_embeddings[0])), then
\* upload_documents_with_metadata(client, COLLECTION_NAME, all_chunk_objs,
\* all_embeddings); an exception of either leaves the handler
StoreChunks(st, all_chunk_objs, all_embeddings, okCalls) ==
    LET created == create_collection(st, all_embeddings[1].dim)
        stored == upload_documents_with_metadata(created.store, all_chunk_objs,
                                                 all_embeddings, okCalls)
    IN  IF created.raised THEN [raised |-> TRUE, store |-> st, calls |-> <<>>]
        ELSE stored

\* an end of upload_docs that recreates the collection before it looks at
\* all_embeddings
upload_docs_end_recreate(st, n_files, all_chunk_objs, all_embeddings, okCalls) ==
    LET created == create_collection(st, EmbeddingDim)
        stored == upload_documents_with_metadata(created.store, all_chunk_objs,
                                                 all_embeddings, okCalls)
    IN  IF created.raised THEN [store |-> st, resp |-> Raised("upload"), calls |-> <<>>]
        ELSE IF all_embeddings = <<>>
        THEN [store |-> created.store,
              resp |-> [op |-> "upload", raised |-> FALSE, status |-> "error",
                        message |-> "No valid content found in uploaded files"],
              calls |-> <<>>]
        ELSE IF stored.raised
        THEN [store |-> stored.store, resp |-> Raised("upload"), calls |-> stored.calls]
        ELSE [store |-> stored.store,
              resp |-> [op |-> "upload", raised |-> FALSE, status |-> "success",
                        chunks |-> Len(all_chunk_objs),
                        files_processed |-> n_files],
              calls |-> stored.calls]

\* upload_docs from `if not all_embeddings` to its return, for the lists the loop
\* over the n_files files has built: the store it leaves, what it returns, and
\* the client.upsert calls it made
upload_docs_end(st, n_files, all_chunk_objs, all_embeddings, okCalls) ==
    LET stored == StoreChunks(st, all_chunk_objs, all_embeddings, okCalls)
    IN  IF all_embeddings = <<>>
        THEN [store |-> st,
              resp |-> [op |-> "upload", raised |-> FALSE, status |-> "error",
                        message |-> "No valid content found in uploaded files"],
              calls |-> <<>>]
        ELSE IF stored.raised
        THEN [store |-> stored.store, resp |-> Raised("upload"), calls |-> stored.calls]
        ELSE [store |-> stored.store,
              resp |-> [op |-> "upload", raised |-> FALSE, status |-> "success",
                        chunks |-> Len(all_chunk_objs),
                        files_processed |-> n_files],
              calls |-> stored.calls]

\* upload_docs(files): the store it leaves and what it returns
upload_docs(st, files, failing, okCalls) ==
    IF files = <<>>
    THEN [store |-> st,
          resp |-> [op |-> "upload", raised |-> FALSE, status |-> "error",
                    message |-> "No files provided"]]
    ELSE LET run == UploadRuns[<<files, failing>>]
             end == upload_docs_end(st, Len(files), run.objs, run.embs, okCalls)
         IN  IF run.raised THEN [store |-> st, resp |-> Raised("upload")]
             ELSE [store |-> end.store, resp |-> end.resp]

(***************************************************************************)
(* backend/main.py: generate                                               *)
(***************************************************************************)
\* the [:300] of the excerpt
ExcerptLength == 300

\* page_info: f"Page {page_number}" if result['page_number'] else f"Chunk {chunk_index}"
PageInfo(result) ==
    IF result.page_number # None /\ result.page_number # Some(0)
    THEN <<"Page", result.page_number[1]>>
    ELSE <<"Chunk", result.chunk_index>>

\* context_parts built over reversed(search_results)
ContextPartsReversed(search_results) ==
    [i \in 1..Len(search_results) |->
        LET result == search_results[Len(search_results) + 1 - i]
        IN  [index |-> i, source |-> result.source,
             page_info |-> PageInfo(result), text |-> result.text]]

\* context_parts: "[Source i: source - page_info]\n text" per result
ContextParts(search_results) ==
    [i \in 1..Len(search_results) |->
        [index |-> i, source |-> search_results[i].source,
         page_info |-> PageInfo(search_results[i]), text |-> search_results[i].text]]

\* the sources of the response
Sources(search_results) ==
    [i \in 1..Len(search_results) |->
        [id |-> i, file |-> search_results[i].source,
         location |-> PageInfo(search_results[i]),
         page_number |-> search_results[i].page_number,
         chunk_index |-> search_results[i].chunk_index,
         relevance_score |-> search_results[i].score,
         excerpt |-> IF Len(search_results[i].text) > ExcerptLength
                     THEN SubSeq(search_results[i].text, 1, ExcerptLength)
                          \o <<".", ".", ".">>
                     ELSE search_results[i].text]]

(***************************************************************************)
(* generator.py, against a deterministic generation service                *)
(*                                                                         *)
(* The service answers a prompt with the same text every time.  Asked with *)
(* stream=True it sends that text as a sequence of deltas, some of which   *)
(* carry no content (the first, with the role; the last, with the finish   *)
(* reason); asked without, it sends the deltas' contents in one message.   *)
(***************************************************************************)
\* the deltas of the service's answer to the prompt made of context and query
Deltas(context, query) ==
    <<<<>>, query, <<>>>> \o [i \in 1..Len(context) |-> context[i].text] \o <<<<>>>>

RECURSIVE Concat(_)
\* "".join(parts)
Concat(parts) ==
    IF parts = <<>> THEN <<>> ELSE Head(parts) \o Concat(Tail(parts))

\* generate_code(context, strict_prompt, key): response.choices[0].message.content
generate_code(context, query) == Concat(Deltas(context, query))

RECURSIVE WithContent(_)
\* the loop of generate_code_stream: the deltas whose content is not empty
WithContent(deltas) ==
    IF deltas = <<>> THEN <<>>
    ELSE IF Head(deltas) # <<>> THEN <<Head(deltas)>> \o WithContent(Tail(deltas))
    ELSE WithContent(Tail(deltas))

\* generate_code_stream that loses the first fragment
generate_code_stream_tail(context, query) ==
    Tail(WithContent(Deltas(context, query)))

\* generate_code_stream(context, strict_prompt, key): the fragments it yields
generate_code_stream(context, query) == WithContent(Deltas(context, query))

(***************************************************************************)
(* backend/main.py: generate, continued                                    *)
(***************************************************************************)
\* generate(query, top_k): what it returns.  embedOk, llmOk: whether the query
\* embedding request and the generation request answer.  invoked: whether the
\* generation service was called.
generate(st, query, top_k, embedOk, llmOk) ==
    LET found == search_documents_with_metadata(st, get_embedding(query), top_k)
        search_results == found.results
    IN  IF ~embedOk THEN Raised("generate")
        ELSE IF found.raised THEN Raised("generate")
        ELSE IF search_results = <<>>
        THEN [op |-> "generate", raised |-> FALSE, error |-> "no_documents",
              sources |-> <<>>, context |-> <<>>, code |-> <<"No documents found">>,
              invoked |-> FALSE]
        ELSE IF ~llmOk THEN Raised("generate")
        ELSE [op |-> "generate", raised |-> FALSE, error |-> "none",
              sources |-> Sources(search_results),
              context |-> ContextParts(search_results),
              code |-> generate_code(ContextParts(search_results), query),
              invoked |-> TRUE]

(***************************************************************************)
(* backend/main.py: generate_stream / event_generator                      *)
(*                                                                         *)
(* The generator runs only when its consumer asks for the next event: one  *)
(* step takes it from the yield it is suspended at to the next yield, or   *)
(* to its end.  Its state s = [pc, events, raised, upstream, pulled,       *)
(* invoked, context, failed]:                                              *)
(*   pc        the yield it is suspended at ("start" before the first      *)
(*             step, "end" at a yield after which it only returns,         *)
(*             "closed" once it has returned or raised, "abandoned" once   *)
(*             the consumer has stopped reading),                          *)
(*   events    the events yielded so far,                                  *)
(*   raised    an exception has left the generator,                        *)
(*   upstream  the streaming ChatCompletion call: "none", "open" or        *)
(*             "released",                                                 *)
(*   pulled    the number of fragments taken from generate_code_stream,    *)
(*   invoked   the generation service was called,                          *)
(*   context   the context_parts given to the generation service,          *)
(*   failed    a call made by one of the steps so far raised.              *)
(***************************************************************************)
\* yield f"data: {json.dumps({'type': type, ...})}\n\n"
Event(type, body) == [type |-> type, body |-> body]

\* the generator yields the event and is suspended at pc
Emit(s, pc, event) == [s EXCEPT !.pc = pc, !.events = Append(@, event)]

\* an event_generator with no except clause: the exception leaves the generator
StreamFailureUncaught(s) == [s EXCEPT !.pc = "closed", !.raised = TRUE]

\* an except clause that goes on to the completion signal
StreamFailureThenDone(s) ==
    Emit(Emit(s, "end", Event("error", "exception")), "end",
         Event("done", "Code generation completed!"))

\* except Exception as e: yield the error event; the generator then ends
StreamFailure(s) == Emit(s, "end", Event("error", "exception"))

\* `if not search_results` without its return: the generator goes on
StreamNoDocumentsGoOn(s) ==
    Emit(Emit(s, "sources", Event("error", "No documents found")), "sources",
         Event("sources", <<>>))

\* if not search_results: yield the error event and return
StreamNoDocuments(s) == Emit(s, "end", Event("error", "No documents found"))

\* a generator that yields the sources event twice
StreamSourcesTwice(s, search_results) ==
    Emit(Emit(s, "sources", Event("sources", Sources(search_results))), "sources",
         Event("sources", Sources(search_results)))

\* yield the sources event: the sources list made of the search results
StreamSources(s, search_results) ==
    Emit(s, "sources", Event("sources", Sources(search_results)))

\* one step of event_generator from the yield s.pc.  ok: the service the step
\* calls (the Qdrant client constructor, the embedding request, the generation
\* request or its next chunk) answers; the search fails when the server is down
event_generator(st, query, top_k, s, ok) ==
    LET found == search_documents_with_metadata(st, get_embedding(query), top_k)
        search_results == found.results
        context == ContextParts(search_results)
        fragments == generate_code_stream(s.context, query)
    IN  CASE s.pc = "start" ->
                Emit(s, "connect", Event("status", "Connecting to Qdrant..."))
          [] s.pc = "connect" ->
                IF ~ok THEN StreamFailure(s)
                ELSE Emit(s, "embed", Event("status", "Generating query embedding..."))
          [] s.pc = "embed" ->
                IF ~ok THEN StreamFailure(s)
                ELSE Emit(s, "search", Event("status", "Searching for relevant documents..."))
          [] s.pc = "search" ->
                IF found.raised THEN StreamFailure(s)
                ELSE IF search_results = <<>> THEN StreamNoDocuments(s)
                ELSE StreamSources(s, search_results)
          [] s.pc = "sources" ->
                Emit(s, "context",
                     Event("status", "Building context from retrieved documents..."))
          [] s.pc = "context" ->
                Emit([s EXCEPT !.context = context], "generating",
                     Event("status", "Generating code with GPT-4..."))
          [] s.pc = "generating" ->
                IF ~ok
                THEN StreamFailure([s EXCEPT !.invoked = TRUE,
                                             !.upstream = IF @ = "open" THEN "released" ELSE @])
                ELSE IF s.pulled >= Len(fragments)
                THEN Emit([s EXCEPT !.invoked = TRUE, !.upstream = "released"], "end",
                          Event("done", "Code generation completed!"))
                ELSE Emit([s EXCEPT !.invoked = TRUE, !.upstream = "open",
                                    !.pulled = @ + 1], "generating",
                          Event("code", fragments[s.pulled + 1]))
          [] s.pc = "end" -> [s EXCEPT !.pc = "closed"]

\* generate_stream(query, top_k): the generator it hands to StreamingResponse
generate_stream ==
    [op |-> "stream", pc |-> "start", events |-> <<>>, raised |-> FALSE,
     upstream |-> "none", pulled |-> 0, invoked |-> FALSE, context |-> <<>>,
     failed |-> FALSE]

(***************************************************************************)
(* SpecChunk: chunk_by_sentences applied to every text over ChunkAlphabet  *)
(* of length at most MaxLen, with every chunk_size in 1..MaxChunkSize and  *)
(* every overlap in 0..MaxOverlap.                                         *)
(***************************************************************************)
ChunkAlphabet == {"a", ".", " "}

ChunkIdle ==
    /\ c_text = <<>> /\ c_size = 1 /\ c_overlap = 0
    /\ c_pc = "idle" /\ c_lists = <<>> /\ c_chunks = <<>>

EmbedIdle ==
    /\ e_texts = <<>> /\ e_batch = 1 /\ e_pc = "idle"
    /\ e_batchFail = {} /\ e_itemFail = {} /\ e_out = <<>>
    /\ e_requests = <<>>

StoreIdle ==
    /\ store = [up |-> TRUE, exists |-> FALSE, size |-> 0, points |-> NoPoints]
    /\ req = [op |-> "none"]
    /\ resp = [op |-> "none"]

InitChunk ==
    /\ c_text \in TextsUpTo(ChunkAlphabet, MaxLen)
    /\ c_size \in 1..MaxChunkSize
    /\ c_overlap \in 0..MaxOverlap
    /\ c_pc = "call"
    /\ c_lists = <<>>
    /\ c_chunks = <<>>
    /\ EmbedIdle
    /\ StoreIdle

\* the call chunk_by_sentences(c_text, c_size, c_overlap) and its return
ChunkCall ==
    /\ c_pc = "call"
    /\ c_pc' = "done"
    /\ c_lists' = ChunkLists(c_text, c_size, c_overlap)
    /\ c_chunks' = chunk_by_sentences(c_text, c_size, c_overlap)
    /\ UNCHANGED <<c_text, c_size, c_overlap, embedVars, storeVars>>

NextChunk == ChunkCall

SpecChunk == InitChunk /\ [][NextChunk]_vars

(***************************************************************************)
(* SpecEmbed: get_embeddings_batch applied to every list of at most        *)
(* MaxTexts texts, with every batch_size in 1..MaxBatch, every set of      *)
(* failing batch requests and every set of failing single requests.        *)
(***************************************************************************)
EmbedTexts == {"t1", "t2"}

InitEmbed ==
    /\ e_texts \in TextsUpTo(EmbedTexts, MaxTexts)
    /\ e_batch \in 1..MaxBatch
    /\ e_pc = "call"
    /\ e_batchFail = {}
    /\ e_itemFail = {}
    /\ e_out = <<>>
    /\ e_requests = <<>>
    /\ ChunkIdle
    /\ StoreIdle

\* the call get_embeddings_batch(e_texts, key, e_batch) and its return
EmbedCall ==
    /\ e_pc = "call"
    /\ \E bf \in SUBSET (1..TotalBatches(Len(e_texts), e_batch)),
          itf \in SUBSET (1..Len(e_texts)) :
          /\ e_batchFail' = bf
          /\ e_itemFail' = itf
          /\ e_out' = get_embeddings_batch(e_texts, e_batch, bf, itf)
          /\ e_requests' = EmbedRequests(e_texts, e_batch, 0, bf, itf, <<>>)
    /\ e_pc' = "done"
    /\ UNCHANGED <<e_texts, e_batch, chunkVars, storeVars>>

NextEmbed == EmbedCall

SpecEmbed == InitEmbed /\ [][NextEmbed]_vars

(***************************************************************************)
(* SpecClean: clean_text applied to every text over CleanAlphabet of       *)
(* length at most MaxCleanLen.  The request holds the argument, the        *)
(* response the returned text.                                             *)
(***************************************************************************)
CleanAlphabet == {"a", "#", " ", "\n"}

InitClean ==
    /\ ChunkIdle
    /\ EmbedIdle
    /\ store = [up |-> TRUE, exists |-> FALSE, size |-> 0, points |-> NoPoints]
    /\ \E text \in TextsUpTo(CleanAlphabet, MaxCleanLen) :
           req = [op |-> "clean", text |-> text]
    /\ resp = [op |-> "none"]

\* the call clean_text(req.text) and its return
CleanCall ==
    /\ req.op = "clean"
    /\ resp.op = "none"
    /\ resp' = [op |-> "clean", text |-> clean_text(req.text)]
    /\ UNCHANGED <<req, store, chunkVars, embedVars>>

NextClean == CleanCall

SpecClean == InitClean /\ [][NextClean]_vars

(***************************************************************************)
(* SpecStore: the end of upload_docs, from `if not all_embeddings` on,     *)
(* applied to the lists of a run of up to MaxRecords chunks, against a     *)
(* server that holds no collection or the records of an earlier run, and   *)
(* that answers any number of the client.upsert calls.                     *)
(***************************************************************************)
\* the text of the i-th chunk of a run
RecordText(i) == IF i % 2 = 1 THEN <<"a", ".">> ELSE <<"b", ".">>

\* all_chunk_objs of a run that made n chunks of one file
Records(n, source_file) ==
    [i \in 1..n |-> create_chunk_with_metadata(RecordText(i), source_file, i - 1, Some(1))]

\* all_embeddings of a run whose embedding requests all succeeded
Embeddings(all_chunk_objs) ==
    [i \in 1..Len(all_chunk_objs) |-> get_embedding(all_chunk_objs[i].text)]

\* a server without the collection
FreshStore == [up |-> TRUE, exists |-> FALSE, size |-> 0, points |-> NoPoints]

\* the server after a run of MaxRecords chunks of another file was stored
UsedStore ==
    StoreChunks(FreshStore, Records(MaxRecords, "old.md"),
                Embeddings(Records(MaxRecords, "old.md")), MaxRecords).store

InitStore ==
    /\ ChunkIdle
    /\ EmbedIdle
    /\ store \in {FreshStore, UsedStore}
    /\ req = [op |-> "none"]
    /\ resp = [op |-> "none"]

\* upload_docs from `if not all_embeddings` to its return, for a run of n chunks
StoreCall ==
    /\ req.op = "none"
    /\ \E n \in 0..MaxRecords :
          \E okCalls \in 0..TotalBatches(n, UpsertBatchSize) :
              LET all_chunk_objs == Records(n, "new.md")
                  end == upload_docs_end(store, 1, all_chunk_objs,
                                         Embeddings(all_chunk_objs), okCalls)
              IN  /\ req' = [op |-> "store", n |-> n, okCalls |-> okCalls,
                              before |-> store, calls |-> end.calls]
                  /\ store' = end.store
                  /\ resp' = end.resp
    /\ UNCHANGED <<chunkVars, embedVars>>

NextStore == StoreCall

SpecStore == InitStore /\ [][NextStore]_vars

(***************************************************************************)
(* Spec: uploads, searches and generations, one after the other, against   *)
(* one Qdrant server that may stop and resume answering between them.  A   *)
(* handler runs from its request to its response in one step; a streamed   *)
(* generation runs one event per step.                                     *)
(***************************************************************************)
Queries == {<<"a", ".">>, <<"c", ".">>}

Init ==
    /\ store = [up |-> TRUE, exists |-> FALSE, size |-> 0, points |-> NoPoints]
    /\ req = [op |-> "none"]
    /\ resp = [op |-> "none"]
    /\ ChunkIdle
    /\ EmbedIdle

\* POST /upload
Upload ==
    /\ resp.op = "none"
    /\ \E in \in UploadInputs :
          \E out \in {upload_docs(store, in.files, in.failing, in.okCalls)} :
              /\ req' = [op |-> "upload", files |-> in.files, failing |-> in.failing,
                          okCalls |-> in.okCalls, before |-> store]
              /\ store' = out.store
              /\ resp' = out.resp
              /\ UNCHANGED <<chunkVars, embedVars>>

\* a call of search_documents_with_metadata with the embedding of a query
Search ==
    /\ resp.op = "none"
    /\ \E query \in Queries, top_k \in 1..MaxTopK :
        LET found == search_documents_with_metadata(store, get_embedding(query), top_k)
        IN  /\ req' = [op |-> "search", query |-> query, top_k |-> top_k]
            /\ resp' = [op |-> "search", raised |-> found.raised,
                        results |-> found.results]
            /\ UNCHANGED <<store, chunkVars, embedVars>>

\* POST /generate
Generate ==
    /\ resp.op = "none"
    /\ \E query \in Queries, top_k \in 1..MaxTopK, embedOk \in BOOLEAN, llmOk \in BOOLEAN :
        /\ req' = [op |-> "generate", query |-> query, top_k |-> top_k,
                    embedOk |-> embedOk, llmOk |-> llmOk]
        /\ resp' = generate(store, query, top_k, embedOk, llmOk)
        /\ UNCHANGED <<store, chunkVars, embedVars>>

\* the server stops answering
StoreDown ==
    /\ resp.op = "none"
    /\ store.up
    /\ store' = [store EXCEPT !.up = FALSE]
    /\ UNCHANGED <<req, resp, chunkVars, embedVars>>

\* the server answers again, with what it held
StoreUp ==
    /\ resp.op = "none"
    /\ ~store.up
    /\ store' = [store EXCEPT !.up = TRUE]
    /\ UNCHANGED <<req, resp, chunkVars, embedVars>>

\* a call the step from s.pc makes raises: a service does not answer, or the
\* search meets a server that is down
StepFails(st, query, top_k, s, ok) ==
    \/ s.pc \in {"connect", "embed", "generating"} /\ ~ok
    \/ s.pc = "search"
          /\ search_documents_with_metadata(st, get_embedding(query), top_k).raised

\* POST /generate-stream
StreamStart ==
    /\ resp.op = "none"
    /\ \E query \in Queries, top_k \in 1..MaxTopK :
        /\ req' = [op |-> "stream", query |-> query, top_k |-> top_k]
        /\ resp' = generate_stream
        /\ UNCHANGED <<store, chunkVars, embedVars>>

\* the consumer asks for the next event
StreamPull ==
    /\ resp.op = "stream"
    /\ resp.pc \notin {"closed", "abandoned"}
    /\ \E ok \in BOOLEAN :
          resp' = [event_generator(store, req.query, req.top_k, resp, ok)
                      EXCEPT !.failed = @ \/ StepFails(store, req.query, req.top_k, resp, ok)]
    /\ UNCHANGED <<store, req, chunkVars, embedVars>>

\* the consumer stops reading before the stream has ended.  The handler has no
\* statement that runs then: whether the suspended generator, and with it the
\* upstream call, is finalised is up to the runtime's garbage collection
StreamCancel ==
    /\ resp.op = "stream"
    /\ resp.pc \notin {"start", "closed", "abandoned"}
    /\ \E finalised \in BOOLEAN :
          resp' = [resp EXCEPT !.pc = "abandoned",
                               !.upstream = IF finalised /\ @ = "open"
                                            THEN "released" ELSE @]
    /\ UNCHANGED <<store, req, chunkVars, embedVars>>

\* the caller has taken the response (or the exception); the next request may come
Deliver ==
    /\ resp.op # "none"
    /\ resp.op = "stream" => resp.pc \in {"closed", "abandoned"}
    /\ req' = [op |-> "none"]
    /\ resp' = [op |-> "none"]
    /\ UNCHANGED <<store, chunkVars, embedVars>>

Next ==
    \/ Upload \/ Search \/ Generate
    \/ StreamStart \/ StreamPull \/ StreamCancel
    \/ Deliver \/ StoreDown \/ StoreUp

Spec == Init /\ [][Next]_vars

(***************************************************************************)
(* Claims about chunk_by_sentences (SpecChunk).                            *)
(***************************************************************************)
IsPrefix(p, t) == Len(p) <= Len(t) /\ SubSeq(t, 1, Len(p)) = p

IsSuffix(p, t) == Len(p) <= Len(t) /\ SubSeq(t, Len(t) - Len(p) + 1, Len(t)) = p

\* the sentences of the text of the call
Sentences == SplitSentences(c_text)

\* the summed sentence lengths of the last m sentences of chunk k
TrailLength(k, m) ==
    SeqSum([j \in 1..m |-> Len(Sentences[c_lists[k][Len(c_lists[k]) - m + j]])])

\* the size of the longest trailing run of chunk k whose summed length is <= overlap
SeedSize(k) ==
    CHOOSE m \in 0..Len(c_lists[k]) :
        /\ TrailLength(k, m) <= c_overlap
        /\ m = Len(c_lists[k]) \/ TrailLength(k, m + 1) > c_overlap

\* the text the last m sentences of chunk k make in a chunk string
TrailText(k, m) ==
    Join([j \in 1..m |-> Sentences[c_lists[k][Len(c_lists[k]) - m + j]]])

\* C2: chunk_by_sentences returns an empty chunk sequence for the empty text,
\* for every chunk_size and overlap.
C2_EmptyTextNoChunks ==
    (c_pc = "done" /\ c_text = <<>>) => c_chunks = <<>>

\* C3 as claimed: with 0 < overlap < chunk_size and more than one chunk, every two
\* consecutive chunks share a non-empty text of at most `overlap` characters that
\* is a suffix of the earlier and a prefix of the later chunk.
C3_ConsecutiveChunksShareText ==
    (c_pc = "done" /\ 0 < c_overlap /\ c_overlap < c_size /\ Len(c_chunks) > 1) =>
        \A k \in 1..(Len(c_chunks) - 1) :
            \E n \in 1..c_overlap :
                /\ n <= Len(c_chunks[k]) /\ n <= Len(c_chunks[k + 1])
                /\ SubSeq(c_chunks[k], Len(c_chunks[k]) - n + 1, Len(c_chunks[k]))
                       = SubSeq(c_chunks[k + 1], 1, n)

\* C3 amended: with overlap < chunk_size and more than one chunk, every chunk after
\* the first begins with the seed, the longest trailing run of whole sentences of
\* the chunk before it whose summed sentence lengths are at most overlap.  The
\* seed may be empty; its text is a suffix of the earlier and a prefix of the
\* later chunk, and is at most overlap characters plus its joining spaces long.
C3_NextChunkStartsWithSeed ==
    (c_pc = "done" /\ c_overlap < c_size /\ Len(c_chunks) > 1) =>
        \A k \in 1..(Len(c_chunks) - 1) :
            LET m == SeedSize(k)
                L == Len(c_lists[k])
            IN  /\ Len(c_lists[k + 1]) > m
                /\ \A j \in 1..m : c_lists[k + 1][j] = c_lists[k][L - m + j]
                /\ IsSuffix(TrailText(k, m), c_chunks[k])
                /\ IsPrefix(TrailText(k, m), c_chunks[k + 1])
                /\ Len(TrailText(k, m)) <= c_overlap + (IF m > 0 THEN m - 1 ELSE 0)

\* a call that returned two chunks sharing a seed of two sentences, whose text is
\* longer than overlap
C3_Witness ==
    /\ c_pc = "done" /\ c_overlap < c_size /\ Len(c_chunks) > 1
    /\ \E k \in 1..(Len(c_chunks) - 1) :
          SeedSize(k) = 2 /\ Len(TrailText(k, 2)) > c_overlap

\* chunk k holds sentence i
InChunk(i, k) == \E j \in 1..Len(c_lists[k]) : c_lists[k][j] = i

\* the first chunk that holds sentence i
FirstChunkOf(i) ==
    CHOOSE k \in 1..Len(c_lists) :
        InChunk(i, k) /\ \A h \in 1..(k - 1) : ~InChunk(i, h)

\* C4 as claimed: with overlap < chunk_size, a sentence longer than chunk_size is
\* in some chunk and every chunk that contains it contains nothing else.
C4_LongSentenceAlone ==
    (c_pc = "done" /\ c_overlap < c_size) =>
        \A i \in 1..Len(Sentences) :
            Len(Sentences[i]) > c_size =>
                /\ \E k \in 1..Len(c_lists) : InChunk(i, k)
                /\ \A k \in 1..Len(c_lists) :
                      InChunk(i, k) => c_lists[k] = <<i>> /\ c_chunks[k] = Sentences[i]

\* C4 amended: a sentence longer than chunk_size is never split or truncated; the
\* chunk in which it first appears ends with it, whole, and the only other
\* sentences of that chunk are the overlap seed: sentences of the chunk before,
\* of summed length at most overlap (none in the first chunk).
C4_LongSentenceEndsItsChunk ==
    c_pc = "done" =>
        \A i \in 1..Len(Sentences) :
            Len(Sentences[i]) > c_size =>
                /\ \E k \in 1..Len(c_lists) : InChunk(i, k)
                /\ LET k == FirstChunkOf(i)
                       n == Len(c_lists[k])
                   IN  /\ c_lists[k][n] = i
                       /\ IsSuffix(Sentences[i], c_chunks[k])
                       /\ k = 1 => n = 1
                       /\ k > 1 =>
                            /\ \A j \in 1..(n - 1) : InChunk(c_lists[k][j], k - 1)
                            /\ SeqSum([j \in 1..(n - 1) |->
                                   Len(Sentences[c_lists[k][j]])]) <= c_overlap

\* a call whose text has a sentence longer than chunk_size that shares its chunk
\* with a seed sentence
C4_Witness ==
    /\ c_pc = "done" /\ c_overlap < c_size
    /\ \E i \in 1..Len(Sentences) :
          /\ Len(Sentences[i]) > c_size
          /\ \E k \in 1..Len(c_lists) : InChunk(i, k) /\ Len(c_lists[k]) > 1

(***************************************************************************)
(* Claims about get_embeddings_batch (SpecEmbed).                          *)
(***************************************************************************)
\* the number of the batch text i is sent in
BatchOf(i) == ((i - 1) \div e_batch) + 1

\* text i got the zero vector: its batch request and its single request raised
Placeholder(i) == BatchOf(i) \in e_batchFail /\ i \in e_itemFail

\* two items have the same form: the same fields and the same number of floats
SameForm(v, w) == DOMAIN v = DOMAIN w /\ v.dim = w.dim

\* C1: get_embeddings_batch returns exactly N vectors for N texts, the i-th being
\* the embedding of the i-th text, or its placeholder when its batch request and
\* its own request both failed, for every batch size and every failure pattern.
C1_BatchTotalAndOrdered ==
    e_pc = "done" =>
        /\ Len(e_out) = Len(e_texts)
        /\ \A i \in 1..Len(e_texts) :
              e_out[i] = IF Placeholder(i) THEN ZeroVector ELSE get_embedding(e_texts[i])

\* a call over several batches of different texts, one batch failed, in it one
\* text embedded singly and one replaced by the placeholder
C1_Witness ==
    /\ e_pc = "done" /\ Len(e_texts) >= 3 /\ e_batch >= 2
    /\ TotalBatches(Len(e_texts), e_batch) >= 2
    /\ \E i, j \in 1..Len(e_texts) :
          /\ i < j /\ e_texts[i] # e_texts[j] /\ BatchOf(i) = BatchOf(j)
          /\ Placeholder(i) /\ BatchOf(j) \in e_batchFail /\ ~Placeholder(j)
    /\ \E b \in 1..TotalBatches(Len(e_texts), e_batch) : b \notin e_batchFail

\* C6: a text whose batch request and single request both failed is returned
\* flagged: in a form that differs from the form of a valid embedding.
C6_PlaceholderFlagged ==
    e_pc = "done" =>
        \A i \in 1..Len(e_texts) :
            Placeholder(i) => ~SameForm(e_out[i], get_embedding(e_texts[i]))

(***************************************************************************)
(* Claims about the ingest and query paths (Spec).                         *)
(***************************************************************************)
\* the formats extract_text_with_pages knows
KnownFormats == {"txt", "md", "pdf", "docx"}

\* the extraction of the file fails: unknown format, or bytes its parser or
\* decoder does not take
ExtractionFails(file) == file.ext \notin KnownFormats \/ ~file.readable

\* the file yields at least one chunk when it is ingested alone
YieldsChunks(file) == ~Processed[file].raised /\ Processed[file].page_chunks # <<>>

\* the upload being answered met a server that took every upsert call
UpsertsAnswered ==
    req.okCalls >= TotalBatches(ChunkCount(req.files), UpsertBatchSize)

\* C5: a successful upload leaves every record that was stored before it present
\* and unmodified: an upload never overwrites or removes records of an earlier one.
C5_SecondUploadKeepsFirstRecords ==
    [][(resp.op = "none" /\ resp'.op = "upload" /\ ~resp'.raised
            /\ resp'.status = "success") =>
          \A id \in DOMAIN store.points :
              id \in DOMAIN store'.points /\ store'.points[id] = store.points[id]]_vars

\* C7: in an upload whose files include one that fails to extract, with the store
\* answering, the run does not raise and every file of the run that yields chunks
\* has its chunks stored.
C7_ExtractionFailureNonFatal ==
    (resp.op = "upload" /\ store.up /\ UpsertsAnswered
        /\ \E i \in 1..Len(req.files) : ExtractionFails(req.files[i])) =>
        /\ ~resp.raised
        /\ \A i \in 1..Len(req.files) :
              YieldsChunks(req.files[i]) =>
                  \E id \in DOMAIN store.points :
                      store.points[id].payload.source = req.files[i].name

\* C8: an upload of at least one file in which no file yields a chunk returns the
\* structured error "No valid content found in uploaded files".
C8_NoChunksStructuredError ==
    (resp.op = "upload" /\ req.files # <<>>
        /\ \A i \in 1..Len(req.files) : ~YieldsChunks(req.files[i])) =>
        /\ ~resp.raised
        /\ resp.status = "error"
        /\ resp.message = "No valid content found in uploaded files"

\* C9: a search that the server answers, against a collection that does not exist
\* or that exists and holds no records, returns the empty list and does not raise.
C9_SearchMissingOrEmptyCollection ==
    (resp.op = "search" /\ store.up /\ (~store.exists \/ store.points = NoPoints)) =>
        ~resp.raised /\ resp.results = <<>>

\* a search answered against a collection that exists and holds no records: an
\* upload created it and the server failed the first upsert
C9_Witness ==
    /\ resp.op = "search" /\ store.up
    /\ store.exists /\ store.points = NoPoints
    /\ ~resp.raised /\ resp.results = <<>>

\* C10: with the server not answering, a search returns the empty list and a
\* generate whose query was embedded reports "no_documents"; neither raises.
C10_UnreachableStoreNoDocuments ==
    /\ (resp.op = "search" /\ ~store.up) =>
           ~resp.raised /\ resp.results = <<>>
    /\ (resp.op = "generate" /\ ~store.up /\ req.embedOk) =>
           ~resp.raised /\ resp.error = "no_documents"

(***************************************************************************)
(* Claims about the event stream of generate_stream (Spec).                *)
(***************************************************************************)
\* the event ends a stream
Terminal(event) == event.type \in {"done", "error"}

\* the last event yielded so far
LastEvent == resp.events[Len(resp.events)]

\* the events of the given type, in arrival order
EventsOfType(type) == SelectSeq(resp.events, LAMBDA e : e.type = type)

\* the contents of the `code` events, in arrival order
CodeFragments == [i \in 1..Len(EventsOfType("code")) |-> EventsOfType("code")[i].body]

\* what the search of the request being answered returns from the store
Found == search_documents_with_metadata(store, get_embedding(req.query), req.top_k)

\* the stream has run its search step: the three status events before it and the
\* event that follows it are out
SearchStepDone == Len(resp.events) > 3

\* C11: in every event stream a terminal event (done or error) is the last event,
\* so no event follows it and done and error never both occur; and a stream
\* consumed to its end has ended with one.
C11_OneTerminalEventLast ==
    resp.op = "stream" =>
        /\ \A i \in 1..Len(resp.events) :
              Terminal(resp.events[i]) => i = Len(resp.events)
        /\ resp.pc = "closed" => (resp.events # <<>> /\ Terminal(LastEvent))

\* a stream consumed to its end whose upstream failed after a code fragment
C11_Witness ==
    /\ resp.op = "stream" /\ resp.pc = "closed"
    /\ EventsOfType("code") # <<>>
    /\ LastEvent.type = "error"
    /\ Len(EventsOfType("error")) = 1 /\ EventsOfType("done") = <<>>

\* C12: once a call made by a step of the streamed generation has raised, the
\* last event of the stream is an error event, the generator goes no further,
\* and no exception leaves it.
C12_FailureIsTerminalErrorEvent ==
    (resp.op = "stream" /\ resp.failed) =>
        /\ ~resp.raised
        /\ resp.events # <<>> /\ LastEvent.type = "error"
        /\ resp.pc \in {"end", "closed", "abandoned"}

\* a stream whose generation request failed after two code fragments were emitted,
\* read to its end
C12_Witness ==
    /\ resp.op = "stream" /\ resp.failed /\ resp.pc = "closed"
    /\ Len(EventsOfType("code")) >= 2
    /\ resp.upstream = "released"
    /\ LastEvent.type = "error"

\* C13: for the prompt of a stream that completed, the fragments of
\* generate_code_stream, and the contents of the code events in arrival order,
\* concatenate to the text generate_code returns, which is the code of the
\* synchronous response to the same request.
C13_StreamConcatEqualsSync ==
    (resp.op = "stream" /\ resp.events # <<>> /\ LastEvent.type = "done") =>
        /\ Concat(generate_code_stream(resp.context, req.query))
               = generate_code(resp.context, req.query)
        /\ Concat(CodeFragments) = generate_code(resp.context, req.query)
        /\ Concat(CodeFragments) = generate(store, req.query, req.top_k, TRUE, TRUE).code

\* a completed stream of several fragments, fewer than the deltas of the service
C13_Witness ==
    /\ resp.op = "stream" /\ resp.pc = "closed" /\ LastEvent.type = "done"
    /\ Len(CodeFragments) >= 3
    /\ Len(CodeFragments) < Len(Deltas(resp.context, req.query))

\* C14: when the search returns no result, the synchronous mode answers with the
\* error "no_documents" and no sources, the stream ends with an error event and
\* has no sources and no code event, and neither calls the generation service.
C14_NoDocumentsShortCircuit ==
    /\ (resp.op = "generate" /\ req.embedOk /\ ~Found.raised /\ Found.results = <<>>) =>
           /\ ~resp.raised
           /\ resp.error = "no_documents" /\ resp.sources = <<>>
           /\ ~resp.invoked
    /\ (resp.op = "stream" /\ SearchStepDone /\ ~Found.raised /\ Found.results = <<>>) =>
           /\ LastEvent.type = "error"
           /\ EventsOfType("sources") = <<>> /\ EventsOfType("code") = <<>>
           /\ EventsOfType("done") = <<>>
           /\ ~resp.invoked /\ resp.upstream = "none"

\* a stream read to its end against an answering store whose collection exists
\* and is empty
C14_Witness ==
    /\ resp.op = "stream" /\ resp.pc = "closed"
    /\ store.up /\ store.exists /\ Found.results = <<>>
    /\ LastEvent = Event("error", "No documents found")

\* the origin and text of context part c are those of search result r
ContextDenotes(c, r) ==
    c.source = r.source /\ c.text = r.text /\ c.page_info = PageInfo(r)

\* the fields of source entry e are those of search result r
SourceDenotes(e, r) ==
    /\ e.file = r.source /\ e.chunk_index = r.chunk_index
    /\ e.page_number = r.page_number /\ e.relevance_score = r.score
    /\ e.location = PageInfo(r)
    /\ IsPrefix(SubSeq(e.excerpt, 1, IF Len(r.text) > ExcerptLength
                                     THEN ExcerptLength ELSE Len(r.text)), r.text)

\* the context and the sources list both number the search results 1..n in the
\* order returned, which is by non-increasing score
SameNumbering(context, sources, results) ==
    /\ Len(context) = Len(results) /\ Len(sources) = Len(results)
    /\ \A i \in 1..Len(results) :
          /\ context[i].index = i /\ ContextDenotes(context[i], results[i])
          /\ sources[i].id = i /\ SourceDenotes(sources[i], results[i])
    /\ \A i \in 1..(Len(results) - 1) : results[i].score >= results[i + 1].score

\* C15: in both generation modes the context lists the search results in the
\* order returned, by non-increasing score, numbered 1..n, and the context part
\* with index i and the sources entry with id i are made of the same result.
C15_ContextIndexIsSourceId ==
    /\ (resp.op = "generate" /\ ~resp.raised /\ resp.error = "none") =>
           SameNumbering(resp.context, resp.sources, Found.results)
    /\ (resp.op = "stream" /\ resp.invoked) =>
           /\ Len(EventsOfType("sources")) = 1
           /\ SameNumbering(resp.context, EventsOfType("sources")[1].body, Found.results)

\* a stream that gave its generation service a context of two passages of
\* different files and different scores
C15_Witness ==
    /\ resp.op = "stream" /\ resp.invoked /\ Len(resp.context) = 2
    /\ resp.context[1].source # resp.context[2].source
    /\ Found.results[1].score > Found.results[2].score

(***************************************************************************)
(* Claims about the stored records and the search (Spec).                  *)
(***************************************************************************)
\* the file of the catalogue with this name
FileNamed(name) == CHOOSE file \in FileCatalogue : file.name = name

\* the page number create_chunk_with_metadata was given for chunk chunk_index of
\* the file
IngestPage(source, chunk_index) ==
    Processed[FileNamed(source)].page_chunks[chunk_index + 1][1]

\* C16: a search returns every chunk with the page number it was tagged with at
\* ingest, and its origin renders as "Page p".
C16_PageNumberRoundTrip ==
    (resp.op = "search" /\ ~resp.raised) =>
        \A i \in 1..Len(resp.results) :
            LET r == resp.results[i]
                p == IngestPage(r.source, r.chunk_index)
            IN  r.page_number = Some(p) /\ PageInfo(r) = <<"Page", p>>

\* the fields of a search result
ResultFields == {"text", "source", "chunk_index", "page_number", "score"}

\* C17: a search that returns gives at most top_k results, sorted by
\* non-increasing rounded score, each with the fields text, source, chunk_index,
\* page_number and score.
C17_AtMostTopKSortedByScore ==
    (resp.op = "search" /\ ~resp.raised) =>
        /\ Len(resp.results) <= req.top_k
        /\ \A i \in 1..(Len(resp.results) - 1) :
              resp.results[i].score >= resp.results[i + 1].score
        /\ \A i \in 1..Len(resp.results) : DOMAIN resp.results[i] = ResultFields

\* a search of a collection that holds more than top_k records, returning top_k
\* results of which the first scores higher than the last
C17_Witness ==
    /\ resp.op = "search" /\ ~resp.raised
    /\ req.top_k >= 2 /\ Cardinality(DOMAIN store.points) > req.top_k
    /\ Len(resp.results) = req.top_k
    /\ resp.results[1].score > resp.results[req.top_k].score

\* the upload being answered got its embeddings, met an answering server, and had
\* its first upsert call refused: the store is as create_collection left it
StoppedAfterCreate ==
    /\ resp.op = "upload" /\ req.files # <<>> /\ req.before.up /\ req.okCalls = 0
    /\ ~UploadRuns[<<req.files, req.failing>>].raised
    /\ UploadRuns[<<req.files, req.failing>>].embs # <<>>

\* C18: after create_collection(name, d) returns, the collection exists with
\* dimensionality d and holds no record, whatever the store held before.
C18_CreateCollectionDestructive ==
    /\ StoppedAfterCreate =>
           /\ store.exists /\ store.points = NoPoints
           /\ store.size = UploadRuns[<<req.files, req.failing>>].embs[1].dim
    /\ \A d \in {1, EmbeddingDim} :
           store.up =>
               /\ ~create_collection(store, d).raised
               /\ create_collection(store, d).store
                      = [up |-> TRUE, exists |-> TRUE, size |-> d, points |-> NoPoints]

\* create_collection has returned on a store whose collection held records
C18_Witness ==
    /\ StoppedAfterCreate
    /\ req.before.exists /\ req.before.points # NoPoints
    /\ store.exists /\ store.points = NoPoints

\* C19: the vectors of the collection all have the dimensionality the collection
\* was created with, which for a run that stored its records is the length of the
\* run's first embedding; placeholder vectors included.
C19_OneDimensionality ==
    /\ store.exists => \A id \in DOMAIN store.points :
                           store.points[id].vector.dim = store.size
    /\ (resp.op = "upload" /\ ~resp.raised /\ resp.status = "success") =>
           store.size = UploadRuns[<<req.files, req.failing>>].embs[1].dim

\* a run has stored a placeholder vector beside a real embedding
C19_Witness ==
    /\ resp.op = "upload" /\ ~resp.raised /\ resp.status = "success"
    /\ \E id \in DOMAIN store.points : store.points[id].vector = ZeroVector
    /\ \E id \in DOMAIN store.points : store.points[id].vector # ZeroVector

\* C20: once the stream is over, by completion, by an upstream error or because
\* the consumer stopped reading, the upstream generation call is not left open.
C20_UpstreamReleasedOnEveryExit ==
    (resp.op = "stream" /\ resp.pc \in {"closed", "abandoned"}) =>
        resp.upstream # "open"


(***************************************************************************)
(* Claims about clean_text (SpecClean).                                    *)
(***************************************************************************)
\* C21: whatever the input, the text clean_text returns has no two whitespace
\* characters in a row, no whitespace at either end, and no character outside
\* the allow-list.
C21_CleanedTextNormalised ==
    resp.op = "clean" =>
        LET out == resp.text
        IN  /\ \A i \in 1..(Len(out) - 1) : ~(IsSpace(out[i]) /\ IsSpace(out[i + 1]))
            /\ out # <<>> => (~IsSpace(out[1]) /\ ~IsSpace(out[Len(out)]))
            /\ \A i \in 1..Len(out) : IsAllowed(out[i])


(***************************************************************************)
(* Claims about the ingest run and the storage step (Spec, SpecStore).     *)
(***************************************************************************)
\* the positions of the uploaded files that contributed at least one chunk
ProcessedFiles == {i \in 1..Len(req.files) : YieldsChunks(req.files[i])}

\* C22: the files_processed count of a successful run is the number of files that
\* were actually processed, that is, that contributed at least one stored chunk;
\* skipped files are not counted.
C22_FilesProcessedCountsContributors ==
    (resp.op = "upload" /\ ~resp.raised /\ resp.status = "success") =>
        resp.files_processed = Cardinality(ProcessedFiles)


(***************************************************************************)
(* Claims about the order of the stream's events (Spec).                   *)
(***************************************************************************)
\* the positions of the events of the given type
PositionsOfType(type) == {i \in 1..Len(resp.events) : resp.events[i].type = type}

\* C23: in every event stream the sources event occurs at most once and before
\* every code event; the code events carry the upstream fragments in upstream
\* order; every code event comes before the terminal event; and a stream that
\* ends with done has exactly one sources event, with at least one source.
C23_SourcesThenCodeThenTerminal ==
    resp.op = "stream" =>
        LET sources == PositionsOfType("sources")
            codes == PositionsOfType("code")
            contents == CodeFragments
            fragments == generate_code_stream(resp.context, req.query)
        IN  /\ Cardinality(sources) <= 1
            /\ \A j \in codes :
                  /\ \E i \in sources : i < j
                  /\ \A i \in sources : i < j
                  /\ \A t \in 1..Len(resp.events) : Terminal(resp.events[t]) => j < t
            /\ contents # <<>> => contents = SubSeq(fragments, 1, Len(contents))
            /\ (resp.events # <<>> /\ LastEvent.type = "done") =>
                  /\ Cardinality(sources) = 1
                  /\ \A i \in sources : resp.events[i].body # <<>>
                  /\ contents = fragments

\* a stream read to its done event that carried two sources and several fragments
C23_Witness ==
    /\ resp.op = "stream" /\ resp.pc = "closed" /\ LastEvent.type = "done"
    /\ Len(EventsOfType("sources")) = 1
    /\ Len(EventsOfType("sources")[1].body) = 2
    /\ Len(CodeFragments) >= 2
    /\ \E i \in 1..(Len(CodeFragments) - 1) : CodeFragments[i] # CodeFragments[i + 1]


(***************************************************************************)
(* Claims about the requests of get_embeddings_batch (SpecEmbed).          *)
(***************************************************************************)
\* the positions of the texts of batch b
BatchPositions(b) ==
    [k \in 1..((IF b * e_batch < Len(e_texts) THEN b * e_batch ELSE Len(e_texts))
               - (b - 1) * e_batch) |-> (b - 1) * e_batch + k]

\* the indices in the log of the requests of the given kind and input
RequestsFor(kind, input) ==
    {r \in 1..Len(e_requests) :
        e_requests[r].kind = kind /\ e_requests[r].input = input}

\* C24: a failed batch request degrades only its own batch: each text of that
\* batch is retried with a single-item request of its own, every other batch is
\* served by its one batch request, and a text gets the placeholder only when
\* its single-item request failed too.
C24_FailedBatchDegradesAlone ==
    e_pc = "done" =>
        /\ \A b \in 1..TotalBatches(Len(e_texts), e_batch) :
              /\ Cardinality(RequestsFor("batch", BatchPositions(b))) = 1
              /\ \A r \in RequestsFor("batch", BatchPositions(b)) :
                    e_requests[r].raised = (b \in e_batchFail)
        /\ \A i \in 1..Len(e_texts) :
              /\ Cardinality(RequestsFor("single", <<i>>))
                     = IF BatchOf(i) \in e_batchFail THEN 1 ELSE 0
              /\ \A r \in RequestsFor("single", <<i>>) :
                    \A q \in RequestsFor("batch", BatchPositions(BatchOf(i))) : q < r
              /\ (e_out[i] = ZeroVector) =
                     (\E r \in RequestsFor("single", <<i>>) : e_requests[r].raised)
              /\ e_out[i] # ZeroVector => e_out[i] = get_embedding(e_texts[i])
        /\ \A r \in 1..Len(e_requests) :
              \/ e_requests[r].kind = "single"
                    /\ \E i \in 1..Len(e_texts) : e_requests[r].input = <<i>>
              \/ e_requests[r].kind = "batch"
                    /\ \E b \in 1..TotalBatches(Len(e_texts), e_batch) :
                          e_requests[r].input = BatchPositions(b)

\* a call of two batches of two texts whose first batch request failed: its two
\* texts were retried singly, the first failing again, and the second batch was
\* served by its batch request although a single request for its text would fail
C24_Witness ==
    /\ e_pc = "done" /\ e_batch = 2 /\ Len(e_texts) = 4
    /\ e_batchFail = {1}
    /\ e_itemFail = {1, 3}
    /\ e_out[1] = ZeroVector /\ e_out[2] = get_embedding(e_texts[2])
    /\ e_out[3] = get_embedding(e_texts[3])
    /\ Len(e_requests) = 4


\* all_chunk_objs and all_embeddings of the run being answered (SpecStore)
RunRecords == Records(req.n, "new.md")
RunEmbeddings == Embeddings(RunRecords)

RECURSIVE CallIds(_)
\* the ids the client.upsert calls carried, call after call
CallIds(calls) == IF calls = <<>> THEN <<>> ELSE Head(calls).ids \o CallIds(Tail(calls))

\* the least k with k * d >= n
CeilDiv(n, d) == CHOOSE k \in 0..n : k * d >= n /\ \A j \in 0..(k - 1) : j * d < n

\* C25: upload_documents_with_metadata of N records makes ceil(N / 100) upsert
\* calls, each carrying at most 100 records that are contiguous in the input and
\* in input order; every record is in exactly one call, under its position as id.
C25_UpsertBatchesPartitionRecords ==
    req.op = "store" =>
        /\ \A c \in 1..Len(req.calls) :
              /\ Len(req.calls[c].ids) \in 1..UpsertBatchSize
              /\ req.calls[c].raised = (c > req.okCalls)
        /\ CallIds(req.calls) = [k \in 1..Len(CallIds(req.calls)) |-> k - 1]
        /\ ~resp.raised =>
              /\ Len(req.calls) = CeilDiv(req.n, UpsertBatchSize)
              /\ Len(CallIds(req.calls)) = req.n
              /\ req.n > 0 =>
                    /\ DOMAIN store.points = 0..(req.n - 1)
                    /\ \A id \in 0..(req.n - 1) :
                          store.points[id].payload.chunk_index
                              = RunRecords[id + 1].metadata.chunk_index

\* a run of more than two full batches, stored in three calls, the last carrying
\* fewer records than the others
C25_Witness ==
    /\ req.op = "store" /\ ~resp.raised
    /\ req.n > 2 * UpsertBatchSize
    /\ Len(req.calls) = 3
    /\ Len(req.calls[1].ids) = UpsertBatchSize
    /\ Len(req.calls[3].ids) = req.n - 2 * UpsertBatchSize
    /\ Len(req.calls[3].ids) < UpsertBatchSize


\* C30: when the server fails on a client.upsert call, the failure leaves the
\* handler (it returns no response, so no success), the records stored before
\* the run are gone, and the collection holds exactly the records of the calls
\* made before the failing one.
C30_UpsertFailureLeavesPrefix ==
    (req.op = "store" /\ req.n > 0 /\ req.okCalls < CeilDiv(req.n, UpsertBatchSize)) =>
        /\ resp = Raised("upload")
        /\ store.exists
        /\ DOMAIN store.points = 0..(req.okCalls * UpsertBatchSize - 1)
        /\ \A id \in DOMAIN store.points :
              /\ store.points[id] = PointStruct(RunRecords, RunEmbeddings, id)
              /\ store.points[id].payload.source = "new.md"

\* the second of three upsert calls failed on a server that held the records of
\* an earlier run: the first hundred new records are all the collection holds
C30_Witness ==
    /\ req.op = "store" /\ resp = Raised("upload")
    /\ req.n > 2 * UpsertBatchSize /\ req.okCalls = 1
    /\ Cardinality(DOMAIN req.before.points) > UpsertBatchSize
    /\ \A id \in DOMAIN req.before.points : req.before.points[id].payload.source = "old.md"
    /\ DOMAIN store.points = 0..(UpsertBatchSize - 1)


(***************************************************************************)
(* Claims about the chunks' sizes and sentences (SpecChunk).               *)
(***************************************************************************)
\* the running character length of chunk k: the sum of its sentences' lengths
RunningLength(k) == SeqSum([j \in 1..Len(c_lists[k]) |-> Len(Sentences[c_lists[k][j]])])

\* C26: chunk_size is exceeded only to keep a sentence whole: with overlap at
\* most chunk_size, every returned chunk that holds no sentence longer than
\* chunk_size has a running length of at most chunk_size.
C26_OversizeOnlyForLongSentence ==
    (c_pc = "done" /\ c_overlap <= c_size) =>
        \A k \in 1..Len(c_lists) :
            (\A j \in 1..Len(c_lists[k]) : Len(Sentences[c_lists[k][j]]) <= c_size)
                => RunningLength(k) <= c_size


\* chunk k without its leading overlap seed (the first chunk has none)
Remainder(k) ==
    IF k = 1 THEN c_lists[1]
    ELSE SubSeq(c_lists[k], SeedSize(k - 1) + 1, Len(c_lists[k]))

RECURSIVE Remainders(_)
\* the remainders of chunks k, k + 1, ..., one after the other
Remainders(k) == IF k > Len(c_lists) THEN <<>> ELSE Remainder(k) \o Remainders(k + 1)

\* C27: chunk_by_sentences loses and reorders nothing: for a non-empty text every
\* chunk is a run of consecutive sentences of the text, joined by single spaces;
\* every sentence is in at least one chunk; and the chunks after the first begin
\* with their overlap seed, without which the chunks put one after the other are
\* the sentences of the text, each once, in order.
C27_NothingLostOrReordered ==
    (c_pc = "done" /\ c_text # <<>>) =>
        /\ Len(c_chunks) = Len(c_lists)
        /\ \A k \in 1..Len(c_lists) :
              /\ c_lists[k] # <<>>
              /\ \A j \in 1..Len(c_lists[k]) :
                    /\ c_lists[k][j] \in 1..Len(Sentences)
                    /\ j > 1 => c_lists[k][j] = c_lists[k][j - 1] + 1
              /\ c_chunks[k] = Join(SubSeq(Sentences, c_lists[k][1],
                                            c_lists[k][Len(c_lists[k])]))
        /\ \A i \in 1..Len(Sentences) : \E k \in 1..Len(c_lists) : InChunk(i, k)
        /\ \A k \in 2..Len(c_lists) :
              /\ SeedSize(k - 1) < Len(c_lists[k])
              /\ \A j \in 1..SeedSize(k - 1) :
                    c_lists[k][j] = c_lists[k - 1][Len(c_lists[k - 1]) - SeedSize(k - 1) + j]
        /\ Remainders(1) = [i \in 1..Len(Sentences) |-> i]

\* a call that returned three chunks, the later ones starting with a seed
C27_Witness ==
    /\ c_pc = "done" /\ c_text # <<>>
    /\ Len(c_lists) >= 3 /\ Len(Sentences) >= 3
    /\ \A k \in 2..Len(c_lists) : SeedSize(k - 1) >= 1
    /\ \E i, j \in 1..Len(Sentences) : Sentences[i] # Sentences[j]


(***************************************************************************)
(* Claims about the lists an ingest run stores (Spec).                     *)
(***************************************************************************)
\* the loop over the files of the upload being answered
Run == UploadRuns[<<req.files, req.failing>>]

\* the upload being answered, whose loop over the files gave run, came to its
\* storage step with a server that answers
ReachedStorage(run) ==
    /\ resp.op = "upload" /\ req.files # <<>> /\ req.before.up
    /\ ~run.raised /\ run.embs # <<>>

\* C28: when an ingest run comes to store, whatever files were skipped and
\* whatever embedding requests failed, all_chunk_objs and all_embeddings are of
\* equal length and the i-th embedding is the one made for the i-th chunk's text
\* (its placeholder when the requests for it failed); every record stored, under
\* id i, has the text, source and chunk_index of chunk i and the vector of chunk i.
C28_RecordsPairChunkWithItsVector ==
    (resp.op = "upload" /\ req.files # <<>>) =>
        LET run == Run
            all_chunk_objs == run.objs
            all_embeddings == run.embs
        IN  ReachedStorage(run) =>
            /\ Len(all_chunk_objs) = Len(all_embeddings)
            /\ \A i \in 1..Len(all_chunk_objs) :
                  all_embeddings[i] = IF i \in req.failing THEN ZeroVector
                                      ELSE get_embedding(all_chunk_objs[i].text)
            /\ DOMAIN store.points \subseteq 0..(Len(all_chunk_objs) - 1)
            /\ (~resp.raised) => DOMAIN store.points = 0..(Len(all_chunk_objs) - 1)
            /\ \A id \in DOMAIN store.points :
                  /\ store.points[id].vector = all_embeddings[id + 1]
                  /\ store.points[id].payload.text = all_chunk_objs[id + 1].text
                  /\ store.points[id].payload.source
                         = all_chunk_objs[id + 1].metadata.source
                  /\ store.points[id].payload.chunk_index
                         = all_chunk_objs[id + 1].metadata.chunk_index

\* a run over two files that stored three records of different texts, one of them
\* with the placeholder vector
C28_Witness ==
    /\ resp.op = "upload" /\ req.files # <<>>
    /\ ReachedStorage(Run) /\ ~resp.raised
    /\ Len(Run.objs) >= 3 /\ req.failing # {}
    /\ Run.objs[1].metadata.source # Run.objs[Len(Run.objs)].metadata.source
    /\ \A i, j \in 1..Len(Run.objs) : i # j => Run.objs[i].text # Run.objs[j].text
    /\ \E id \in DOMAIN store.points : store.points[id].vector = ZeroVector


\* the upload being answered ended with the "no valid content" error
NoValidContent ==
    /\ resp.op = "upload" /\ ~resp.raised /\ resp.status = "error"
    /\ resp.message = "No valid content found in uploaded files"

\* C29: an ingest run that ends with the "no valid content" error leaves the
\* store as it found it: a collection that existed keeps all its records.
C29_NoValidContentLeavesStore ==
    NoValidContent => store = req.before

\* a run of files that yield no chunk, on a server whose collection held records
C29_Witness ==
    /\ NoValidContent
    /\ req.before.up /\ req.before.exists /\ req.before.points # NoPoints
    /\ store.points = req.before.points
    /\ \E i \in 1..Len(req.files) : ~YieldsChunks(req.files[i])

====
